---- MODULE Spec2Model ----
(***************************************************************************)
(* The browser Series facade of danfojs (danfojs-browser/src/core/series.ts) *)
(* and the collaborators it forwards to: the CSV, JSON and Excel exporters  *)
(* of danfojs-base/io/browser, the PlotlyLib chart session, and the         *)
(* platform's save primitive.                                               *)
(*                                                                         *)
(* Text is a sequence of one-character strings, so that joining, splitting *)
(* and stringifying are computed rather than assumed.                      *)
(***************************************************************************)
EXTENDS Integers, Sequences, FiniteSets, TLC

VARIABLES
    series,     \* the receiving Series: [values, index, columns]
    lastCall,   \* the facade call just made: [op, args]
    invoked,    \* the collaborator calls made by that facade call, in order
    result,     \* what the facade call gave its caller: [kind, val]
    saved,      \* the save-primitive invocations made by that facade call
    dataRead,   \* whether that facade call read the Series' data
    nSessions,  \* chart sessions constructed so far
    memo        \* the first option-less export of the run: [phase, op, out]

vars == <<series, lastCall, invoked, result, saved, dataRead, nSessions, memo>>

\* ------------------------------------------------------------- bounds

\* Longest generated Series.
MaxLen == 2
\* Chart sessions constructed in one run.
MaxSessions == 2

\* --------------------------------------------------------------- text

DigitChars == <<"0", "1", "2", "3", "4", "5", "6", "7", "8", "9">>

\* Locale-independent decimal rendering of a natural number.
RECURSIVE ToStr(_)
ToStr(n) ==
    IF n < 10 THEN <<DigitChars[n + 1]>>
    ELSE ToStr(n \div 10) \o <<DigitChars[(n % 10) + 1]>>

\* Array.prototype.join: the texts of `parts` with `sep` between them.
RECURSIVE Join(_, _)
Join(parts, sep) ==
    IF Len(parts) = 0 THEN <<>>
    ELSE IF Len(parts) = 1 THEN parts[1]
    ELSE parts[1] \o <<sep>> \o Join(Tail(parts), sep)

\* String.prototype.split on a one-character separator: one piece more
\* than the separator occurs, so the empty text splits into one empty piece.
RECURSIVE Split(_, _)
Split(text, sep) ==
    IF \A i \in 1..Len(text) : text[i] # sep THEN <<text>>
    ELSE LET p == CHOOSE i \in 1..Len(text) :
                      /\ text[i] = sep
                      /\ \A j \in 1..(i - 1) : text[j] # sep
         IN <<SubSeq(text, 1, p - 1)>> \o Split(SubSeq(text, p + 1, Len(text)), sep)

Quote(text) == <<"\"">> \o text \o <<"\"">>

\* ------------------------------------------------------------ options

\* An options argument is a record over any subset of keys; the argument
\* list of a call is <<>> (options omitted) or <<options>>.
EmptyRec == [k \in {} |-> TRUE]

Parts(key, vals) == {EmptyRec} \cup {key :> v : v \in vals}

\* The destructuring { ...defaults, ...options } of the exporters.
Opt(args, key, default) ==
    IF Len(args) = 1 /\ key \in DOMAIN args[1] THEN args[1][key] ELSE default

\* ------------------------------------------------------------- Series

Range0(n) == [i \in 1..n |-> i - 1]

\* new Series(data, options): the column name defaults to "0" and the
\* index to 0..n-1.
Series(data, options) ==
    [values  |-> data,
     index   |-> IF "index" \in DOMAIN options THEN options.index
                 ELSE Range0(Len(data)),
     columns |-> IF "columns" \in DOMAIN options THEN options.columns
                 ELSE << <<"0">> >>]

\* Every Series the model starts from: the data of the documentation's
\* examples, and every short sequence over Values, each with the default
\* column name and index and with a column name and index labels of its own.
Values == {1, 12}

RECURSIVE SeqsUpTo(_)
SeqsUpTo(n) ==
    IF n = 0 THEN {<<>>}
    ELSE SeqsUpTo(n - 1) \cup [1..n -> Values]

DocData == <<1, 2, 3, 4>>

DataSets == SeqsUpTo(MaxLen) \cup {DocData}

SeriesOptions(data) ==
    { EmptyRec,
      ("columns" :> << <<"a", "b">> >>) @@ ("index" :> [k \in 1..Len(data) |-> 10 * k]) }

AllSeries == UNION { {Series(d, o) : o \in SeriesOptions(d)} : d \in DataSets }

\* ----------------------------------------------------------- outcomes

Returned(v) == [kind |-> "returned", val |-> v]
Void        == [kind |-> "void", val |-> <<>>]
Thrown(e)   == [kind |-> "thrown", val |-> e]

\* ------------------------------------------------------- platform I/O

\* "Trigger browser download" of content under a file name: fire and
\* forget, it reports nothing back to the exporter.
downloadFileInBrowser(content, fileName) ==
    [content |-> content, name |-> fileName, ok |-> TRUE]

\* Saving a workbook under a file name; the platform may refuse (ok = FALSE).
writeFile(workbook, fileName, ok) ==
    [content |-> workbook, name |-> fileName, ok |-> ok]

\* ------------------------------------------------------- CSV exporter

\* toCSVBrowser(df, options): one line per value in index order, the column
\* name as first line when `header`; a line's fields are joined with `sep`
\* and the lines with a line feed.
toCSVBrowser(df, args) ==
    LET header   == Opt(args, "header", TRUE)
        sep      == Opt(args, "sep", ",")
        fileName == Opt(args, "fileName", "data.csv")
        download == Opt(args, "download", FALSE)
        rows     == [i \in 1..Len(df.values) |-> Join(<<ToStr(df.values[i])>>, sep)]
        lines    == IF header THEN <<Join(<<df.columns[1]>>, sep)>> \o rows ELSE rows
        csv      == Join(lines, "\n")
    IN IF download
       THEN [out |-> Void, saves |-> <<downloadFileInBrowser(csv, fileName)>>, read |-> TRUE]
       ELSE [out |-> Returned(csv), saves |-> <<>>, read |-> TRUE]

\* ------------------------------------------------------ JSON exporter

Formats == {"column", "row"}

\* The one key of a single-key object.
KeyOf(obj) == CHOOSE k \in DOMAIN obj : TRUE

ColumnJSON(df) == (df.columns[1] :> df.values)

RowJSON(df) == [i \in 1..Len(df.values) |-> (df.columns[1] :> df.values[i])]

\* JSON.stringify of the two structures.
StringifyColumn(obj) ==
    <<"{">> \o Quote(KeyOf(obj)) \o <<":", "[">>
        \o Join([i \in 1..Len(obj[KeyOf(obj)]) |-> ToStr(obj[KeyOf(obj)][i])], ",")
        \o <<"]", "}">>

StringifyRows(arr) ==
    <<"[">>
        \o Join([i \in 1..Len(arr) |->
                   <<"{">> \o Quote(KeyOf(arr[i])) \o <<":">>
                       \o ToStr(arr[i][KeyOf(arr[i])]) \o <<"}">>], ",")
        \o <<"]">>

\* toJSONBrowser(df, options): `format` is validated before the Series is
\* read; an unrecognized value is an InvalidOption error.
toJSONBrowser(df, args) ==
    LET format   == Opt(args, "format", "column")
        fileName == Opt(args, "fileName", "data.json")
        download == Opt(args, "download", FALSE)
        json     == IF format = "column" THEN ColumnJSON(df) ELSE RowJSON(df)
        text     == IF format = "column" THEN StringifyColumn(json) ELSE StringifyRows(json)
    IN IF format \notin Formats
       THEN [out |-> Thrown("InvalidOption"), saves |-> <<>>, read |-> FALSE]
       ELSE IF download
       THEN [out |-> Void, saves |-> <<downloadFileInBrowser(text, fileName)>>, read |-> TRUE]
       ELSE [out |-> Returned(json), saves |-> <<>>, read |-> TRUE]

\* Reading a column-format object back into a Series: the key is the column
\* name, its array the values; the index is generated afresh.
SeriesFromJSON(obj) == Series(obj[KeyOf(obj)], "columns" :> <<KeyOf(obj)>>)

\* ----------------------------------------------------- Excel exporter

\* The single-column sheet: the column name, then one row per value.
SheetRows(df) == << <<df.columns[1]>> >> \o [i \in 1..Len(df.values) |-> <<df.values[i]>>]

Workbook(df, sheetName) ==
    [SheetNames |-> <<sheetName>>, Sheets |-> (sheetName :> SheetRows(df))]

\* Reading a workbook's single sheet back.
SheetHeader(wb) == wb.Sheets[wb.SheetNames[1]][1][1]

SheetValues(wb) ==
    LET rows == wb.Sheets[wb.SheetNames[1]]
    IN [i \in 1..(Len(rows) - 1) |-> rows[i + 1][1]]

\* toExcelBrowser(df, options): always a save, made once; a refused save is
\* an IOFailure for the caller.
toExcelBrowser(df, args, ok) ==
    LET sheetName == Opt(args, "sheetName", "Sheet1")
        fileName  == Opt(args, "fileName", "output.xlsx")
        attempt   == writeFile(Workbook(df, sheetName), fileName, ok)
    IN [out   |-> IF ok THEN Void ELSE Thrown("IOFailure"),
        saves |-> <<attempt>>,
        read  |-> TRUE]

\* ------------------------------------------------------ plot delegate

\* new PlotlyLib(ndframe, divId): binds the two and draws nothing; `id` is
\* the new object's identity.
PlotlyLib(ndframe, divId, id) ==
    [id |-> id, ndframe |-> ndframe, divId |-> divId, drawn |-> FALSE]

\* ------------------------------------------------------------- inputs

\* The option records callers pass: every option that decides the output
\* absent or present, alone or together with a file name of the caller's
\* and a key no exporter recognizes.
Extras(fileName) == {EmptyRec, ("fileName" :> fileName) @@ ("theme" :> "dark")}

CsvOptions ==
    { h @@ s @@ d @@ x :
        h \in Parts("header", BOOLEAN), s \in Parts("sep", {";"}),
        d \in Parts("download", BOOLEAN), x \in Extras("my.csv") }

JsonOptions ==
    { m @@ d @@ x :
        m \in Parts("format", {"column", "row", "xml"}),
        d \in Parts("download", BOOLEAN), x \in Extras("my.json") }

ExcelOptions ==
    { n @@ d @@ x :
        n \in Parts("sheetName", {"Sheet2"}), d \in Parts("download", {TRUE}),
        x \in Extras("my.xlsx") }

ArgLists(options) == {<<>>} \cup {<<o>> : o \in options}

\* The mount points that exist in the page, and the ones callers name.
Mounts == {"plot_div"}
DivIds == {"plot_div", "no_such_div"}

\* ------------------------------------------------------------- facade

\* The collaborator call `call`, carried out: its outcome, the saves it
\* made and whether it read the Series.
Run(call, ok) ==
    CASE call.fn = "toCSVBrowser"   -> toCSVBrowser(call.df, call.args)
      [] call.fn = "toJSONBrowser"  -> toJSONBrowser(call.df, call.args)
      [] call.fn = "toExcelBrowser" -> toExcelBrowser(call.df, call.args, ok)

\* The first option-less toCSV() or toJSON() of a run is remembered, and
\* whether any other call followed it.
Remember(op, args, ret) ==
    IF memo.phase = "none"
    THEN IF op \in {"toCSV", "toJSON"} /\ args = <<>>
         THEN [phase |-> "captured", op |-> op, out |-> ret]
         ELSE memo
    ELSE IF op = memo.op /\ args = <<>>
         THEN memo
         ELSE [memo EXCEPT !.phase = "interleaved"]

\* One facade call: it made `call`, which had effect `eff`, and gave `ret`
\* to its caller.
Step(op, args, call, eff, ret) ==
    /\ lastCall' = [op |-> op, args |-> args]
    /\ invoked' = <<[fn |-> call.fn, df |-> call.df, args |-> call.args, out |-> eff.out]>>
    /\ result' = ret
    /\ saved' = eff.saves
    /\ dataRead' = eff.read
    /\ memo' = Remember(op, args, ret)

\* The receiver's values reversed in place (Array.prototype.reverse).
RECURSIVE Reverse(_)
Reverse(seq) == IF Len(seq) = 0 THEN <<>> ELSE Reverse(Tail(seq)) \o <<Head(seq)>>

\* toCSV forwarding no options: toCSVBrowser(this).
toCSV_DropsOptions(args) ==
    LET call == [fn |-> "toCSVBrowser", df |-> series, args |-> <<>>]
        eff  == Run(call, TRUE)
    IN /\ Step("toCSV", args, call, eff, eff.out)
       /\ UNCHANGED <<series, nSessions>>

\* toCSV forwarding a Series rebuilt from the values: the column name and
\* the index labels are lost.
toCSV_RewrapsValues(args) ==
    LET call == [fn |-> "toCSVBrowser", df |-> Series(series.values, EmptyRec), args |-> args]
        eff  == Run(call, TRUE)
    IN /\ Step("toCSV", args, call, eff, eff.out)
       /\ UNCHANGED <<series, nSessions>>

\* toCSV reversing the receiver's values in place before exporting.
toCSV_ReversesInPlace(args) ==
    LET self == [series EXCEPT !.values = Reverse(series.values)]
        call == [fn |-> "toCSVBrowser", df |-> self, args |-> args]
        eff  == Run(call, TRUE)
    IN /\ Step("toCSV", args, call, eff, eff.out)
       /\ series' = self
       /\ UNCHANGED nSessions

toCSV(args) ==
    LET call == [fn |-> "toCSVBrowser", df |-> series, args |-> args]
        eff  == Run(call, TRUE)
    IN /\ Step("toCSV", args, call, eff, eff.out)
       /\ UNCHANGED <<series, nSessions>>

\* toJSON forwarding no options: toJSONBrowser(this).
toJSON_DropsOptions(args) ==
    LET call == [fn |-> "toJSONBrowser", df |-> series, args |-> <<>>]
        eff  == Run(call, TRUE)
    IN /\ Step("toJSON", args, call, eff, eff.out)
       /\ UNCHANGED <<series, nSessions>>

\* toJSON forwarding a Series rebuilt from the values.
toJSON_RewrapsValues(args) ==
    LET call == [fn |-> "toJSONBrowser", df |-> Series(series.values, EmptyRec), args |-> args]
        eff  == Run(call, TRUE)
    IN /\ Step("toJSON", args, call, eff, eff.out)
       /\ UNCHANGED <<series, nSessions>>

\* toJSON catching what the exporter throws and returning nothing.
toJSON_SwallowsError(args) ==
    LET call == [fn |-> "toJSONBrowser", df |-> series, args |-> args]
        eff  == Run(call, TRUE)
    IN /\ Step("toJSON", args, call, eff, IF eff.out.kind = "thrown" THEN Void ELSE eff.out)
       /\ UNCHANGED <<series, nSessions>>

toJSON(args) ==
    LET call == [fn |-> "toJSONBrowser", df |-> series, args |-> args]
        eff  == Run(call, TRUE)
    IN /\ Step("toJSON", args, call, eff, eff.out)
       /\ UNCHANGED <<series, nSessions>>

\* toExcel catching what the exporter throws and returning nothing.
toExcel_SwallowsError(args, ok) ==
    LET call == [fn |-> "toExcelBrowser", df |-> series, args |-> args]
        eff  == Run(call, ok)
    IN /\ Step("toExcel", args, call, eff, Void)
       /\ UNCHANGED <<series, nSessions>>

\* toExcel forwarding no options: toExcelBrowser(this).
toExcel_DropsOptions(args, ok) ==
    LET call == [fn |-> "toExcelBrowser", df |-> series, args |-> <<>>]
        eff  == Run(call, ok)
    IN /\ Step("toExcel", args, call, eff, eff.out)
       /\ UNCHANGED <<series, nSessions>>

toExcel(args, ok) ==
    LET call == [fn |-> "toExcelBrowser", df |-> series, args |-> args]
        eff  == Run(call, ok)
    IN /\ Step("toExcel", args, call, eff, eff.out)
       /\ UNCHANGED <<series, nSessions>>

\* plot handing out one cached session instead of constructing a new one.
plot_ReusesSession(divId) ==
    /\ nSessions < MaxSessions
    /\ LET plt == PlotlyLib(series, divId, 1)
       IN /\ lastCall' = [op |-> "plot", args |-> <<divId>>]
          /\ invoked' = IF nSessions = 0
                        THEN <<[fn |-> "PlotlyLib", df |-> series, args |-> <<divId>>,
                                out |-> Returned(plt)]>>
                        ELSE <<>>
          /\ result' = Returned(plt)
          /\ saved' = <<>>
          /\ dataRead' = FALSE
          /\ memo' = Remember("plot", <<divId>>, Returned(plt))
    /\ nSessions' = nSessions + 1
    /\ UNCHANGED series

plot(divId) ==
    /\ nSessions < MaxSessions
    /\ LET plt == PlotlyLib(series, divId, nSessions + 1)
       IN /\ lastCall' = [op |-> "plot", args |-> <<divId>>]
          /\ invoked' = <<[fn |-> "PlotlyLib", df |-> series, args |-> <<divId>>,
                           out |-> Returned(plt)]>>
          /\ result' = Returned(plt)
          /\ saved' = <<>>
          /\ dataRead' = FALSE
          /\ memo' = Remember("plot", <<divId>>, Returned(plt))
    /\ nSessions' = nSessions + 1
    /\ UNCHANGED series

\* ------------------------------------------------------ specification

Init ==
    /\ series \in AllSeries
    /\ lastCall = [op |-> "none", args |-> <<>>]
    /\ invoked = <<>>
    /\ result = Void
    /\ saved = <<>>
    /\ dataRead = FALSE
    /\ nSessions = 0
    /\ memo = [phase |-> "none", op |-> "none", out |-> Void]

Next ==
    \/ \E args \in ArgLists(CsvOptions) : toCSV(args)
    \/ \E args \in ArgLists(JsonOptions) : toJSON(args)
    \/ \E args \in ArgLists(ExcelOptions), ok \in BOOLEAN : toExcel(args, ok)
    \/ \E divId \in DivIds : plot(divId)

Spec == Init /\ [][Next]_vars

\* ------------------------------------------------------------- claims

Op   == lastCall.op
Args == lastCall.args

\* The caller's options hold `key`.
Has(key) == Len(Args) = 1 /\ key \in DOMAIN Args[1]

\* The caller asked for a download.
Download == Opt(Args, "download", FALSE)

\* The caller named a format that toJSON does not recognize.
BadFormat == Op = "toJSON" /\ Has("format") /\ Args[1].format \notin Formats

\* The caller's arguments with `download` switched off.
NoDownload(args) ==
    IF Len(args) = 1 THEN <<("download" :> FALSE) @@ args[1]>> ELSE args

\* The text a download of the current call hands to the save primitive.
Serialized ==
    IF Op = "toCSV" THEN toCSVBrowser(series, NoDownload(Args)).out.val
    ELSE IF Opt(Args, "format", "column") = "column"
    THEN StringifyColumn(toJSONBrowser(series, NoDownload(Args)).out.val)
    ELSE StringifyRows(toJSONBrowser(series, NoDownload(Args)).out.val)

DefaultFileName == IF Op = "toCSV" THEN "data.csv" ELSE "data.json"

\* What the download flag decides for toCSV and toJSON.
VariantByDownload ==
    IF Download
    THEN /\ result = Void
         /\ Len(saved) = 1
         /\ saved[1].name = Opt(Args, "fileName", DefaultFileName)
         /\ saved[1].content = Serialized
    ELSE /\ result.kind = "returned"
         /\ saved = <<>>

\* C1: toJSON with a `format` that is present and neither "column" nor
\* "row" ends in an InvalidOption error whatever `download` and `fileName`
\* are: nothing is returned, nothing is saved, the Series is not read and no
\* default format takes the place of the bad one.
C1_InvalidFormatRejected ==
    BadFormat =>
        /\ result.kind = "thrown"
        /\ result.val = "InvalidOption"
        /\ saved = <<>>
        /\ ~dataRead

C1_Witness ==
    /\ BadFormat
    /\ Has("download") /\ Args[1].download
    /\ Has("fileName")
    /\ result.kind = "thrown"
    /\ Len(series.values) > 0

PureCall(call) ==
    /\ call.op \in {"toCSV", "toJSON"}
    /\ ~Opt(call.args, "download", FALSE)

HeaderOff == Op = "toCSV" /\ Has("header") /\ ~Args[1].header /\ ~Download

ExpectedLines ==
    (IF Opt(Args, "header", TRUE) THEN <<series.columns[1]>> ELSE <<>>)
        \o [i \in 1..Len(series.values) |-> ToStr(series.values[i])]

\* C5: toCSV without download returns one line per value in index order,
\* after a first line that is exactly the column name when `header` is true
\* or absent and after nothing when it is false; the empty Series gives the
\* empty text or the column name alone; [1, 2, 3, 4] with no column name and
\* no options gives "0\n1\n2\n3\n4".
C5_HeaderIsColumnName ==
    (Op = "toCSV" /\ ~Download) =>
        /\ result.kind = "returned"
        /\ ExpectedLines # <<>> => Split(result.val, "\n") = ExpectedLines
        /\ ExpectedLines = <<>> => result.val = <<>>
        /\ (Len(series.values) = 0 /\ Opt(Args, "header", TRUE))
              => result.val = series.columns[1]
        /\ (series.values = DocData /\ series.columns = << <<"0">> >> /\ Args = <<>>)
              => result.val = <<"0", "\n", "1", "\n", "2", "\n", "3", "\n", "4">>

C5_Witness ==
    /\ Op = "toCSV"
    /\ ~Has("header")
    /\ ~Download
    /\ series.columns = << <<"a", "b">> >>
    /\ series.values = <<12, 1>>
    /\ result.val = <<"a", "b", "\n", "1", "2", "\n", "1">>

C7_RowPerValue ==
    (Op = "toJSON" /\ Has("format") /\ Args[1].format = "row" /\ ~Download) =>
        /\ result.kind = "returned"
        /\ result.val = [i \in 1..Len(series.values) |->
                            (series.columns[1] :> series.values[i])]
        /\ Len(result.val) = Len(series.values)
        /\ \A i \in 1..Len(series.values) :
              /\ DOMAIN result.val[i] = {series.columns[1]}
              /\ result.val[i][series.columns[1]] = series.values[i]

C7_Witness ==
    /\ Op = "toJSON"
    /\ Has("format") /\ Args[1].format = "row"
    /\ ~Download
    /\ series.values = DocData
    /\ series.columns = << <<"a", "b">> >>
    /\ result.val = << (<<"a", "b">> :> 1), (<<"a", "b">> :> 2),
                       (<<"a", "b">> :> 3), (<<"a", "b">> :> 4) >>

\* C8: every toExcel call, with a `download` key or without, makes exactly
\* one save attempt, of a workbook whose single sheet is named `sheetName`
\* (by default "Sheet1") and holds the column name and then the values in
\* index order; it returns nothing when the save succeeds and ends in an
\* IOFailure when it does not, and never returns a representation.
C8_ExcelAlwaysSaves ==
    Op = "toExcel" =>
        /\ Len(saved) = 1
        /\ saved[1].content.SheetNames = <<Opt(Args, "sheetName", "Sheet1")>>
        /\ DOMAIN saved[1].content.Sheets = {Opt(Args, "sheetName", "Sheet1")}
        /\ SheetHeader(saved[1].content) = series.columns[1]
        /\ SheetValues(saved[1].content) = series.values
        /\ saved[1].name = Opt(Args, "fileName", "output.xlsx")
        /\ saved[1].ok => result = Void
        /\ ~saved[1].ok => (result.kind = "thrown" /\ result.val = "IOFailure")

C8_Witness ==
    /\ Op = "toExcel"
    /\ Has("download")
    /\ Has("sheetName")
    /\ ~saved[1].ok
    /\ result.kind = "thrown"
    /\ Len(series.values) = 2

\* C9: every plot call constructs and returns a session that no earlier
\* call returned, bound to the receiving Series and to the mount id given,
\* with nothing drawn and nothing saved, also when no such mount point exists.
C9_PlotBindsNewSession ==
    [][ lastCall'.op = "plot" =>
          /\ result'.kind = "returned"
          /\ result'.val.ndframe = series'
          /\ result'.val.divId = lastCall'.args[1]
          /\ ~result'.val.drawn
          /\ result'.val.id \notin 1..nSessions
          /\ result'.val.id \in 1..nSessions'
          /\ Len(invoked') = 1 /\ invoked'[1].fn = "PlotlyLib"
          /\ saved' = <<>>
      ]_vars

C9_Witness ==
    /\ Op = "plot"
    /\ Args[1] \notin Mounts
    /\ result.kind = "returned"
    /\ result.val.id = 2
    /\ nSessions = 2

\* The exporter each export operation forwards to.
ExporterOf(op) ==
    CASE op = "toCSV"   -> "toCSVBrowser"
      [] op = "toJSON"  -> "toJSONBrowser"
      [] op = "toExcel" -> "toExcelBrowser"

\* C10: each toCSV, toJSON or toExcel call invokes its exporter exactly
\* once, with the receiving Series and with the caller's arguments as they
\* were given (options omitted stay omitted, unknown keys stay), and gives
\* its caller exactly what the exporter returned or threw.
C10_TransparentForwarder ==
    Op \in {"toCSV", "toJSON", "toExcel"} =>
        /\ Len(invoked) = 1
        /\ invoked[1].fn = ExporterOf(Op)
        /\ invoked[1].df = series
        /\ invoked[1].args = Args
        /\ result = invoked[1].out

C10_Witness ==
    /\ Op = "toExcel"
    /\ Has("theme")
    /\ Len(invoked) = 1
    /\ "theme" \in DOMAIN invoked[1].args[1]
    /\ invoked[1].out.kind = "thrown"
    /\ result.kind = "thrown"

====
